---- MODULE Spec2Model ----
(***************************************************************************)
(* Purchase - verification - refund pipeline of the Eventful ticketing     *)
(* backend (TicketService, PaystackService, RedisClient, RefundService,    *)
(* WalletService).  Every request is served by one of NumProcs concurrent  *)
(* handlers; a handler's steps are the awaits of the async method it runs, *)
(* each await being one atomic access to MongoDB, Redis or the gateway.    *)
(*                                                                         *)
(* Money: kobo amounts are integers.  Naira amounts (kobo / 100, a float   *)
(* in the code) are kept in hundredths of a naira so that they stay        *)
(* integers; NairaTotal and PricePerTicket compute them as the code does.  *)
(* Time: the clock `now` and every date count whole hours.                  *)
(***************************************************************************)
EXTENDS Integers, Sequences, FiniteSets, TLC

(* ---------------------------- bounds ----------------------------------- *)
NumProcs == 2
MaxRefs == 2
MaxNow == 1
MaxCredits == 2
MaxRequests == 3
MaxDeepRequests == 4

\* part_016:24  (1000 * 60 * 60 * 24) milliseconds, in hours
HoursPerDay == 24

Procs == 1..NumProcs
Refs == 1..MaxRefs
EventIds == {"e1"}
MissingEvent == "e0"
Users == {"u1", "u2"}
Buyers == {"u1"}
Prices == {10000}
Totals == {1}
StockTotals == {2}
Quantities == {1, 2}
EventDates == {0, 2 * HoursPerDay}

VARIABLES
  eventStatus,       \* Event.status
  totalTickets,      \* Event.totalTickets
  availableTickets,  \* Event.availableTickets
  ticketPrice,       \* Event.ticketPrice (kobo)
  eventDate,         \* Event.date
  now,               \* the clock read by new Date()
  cache,             \* Redis: payment:<reference> -> stored intent
  gateway,           \* Paystack: reference -> session (status, amount)
  nextRef,           \* next reference the gateway service generates
  tickets,           \* Ticket collection, in insertion order (_id = index)
  payments,          \* Payment collection: reference -> status
  balance,           \* Wallet.balance per user
  transactions,      \* Transaction collection: completed transactions, by reference
  credits,           \* number of wallet credits written per ticket reference
  decrements,        \* number of $inc -1 applied per payment reference
  budget,            \* number of requests the run may still accept
  pc,                \* per handler: the await it is suspended at
  loc,               \* per handler: its local variables
  response,          \* the response sent in the last step, if any
  quote              \* the last answer of checkRefundEligibility, if any

vars == <<eventStatus, totalTickets, availableTickets, ticketPrice, eventDate,
          now, cache, gateway, nextRef, tickets, payments, balance,
          transactions, credits, decrements, budget, pc, loc, response, quote>>

eventVars == <<eventStatus, totalTickets, ticketPrice, eventDate>>
walletVars == <<balance, transactions, credits>>

(* ---------------------------- values ----------------------------------- *)
NoIntent == [eventId |-> "none", userId |-> "none", quantity |-> 0, totalAmount |-> 0]
NoSession == [status |-> "none", amount |-> 0]

NoLoc == [op |-> "none", eventId |-> "none", userId |-> "none", quantity |-> 0,
          ref |-> 0, ticket |-> 0, intent |-> NoIntent, gw |-> "none",
          amount |-> 0, read |-> 0, seq |-> FALSE, via |-> "none",
          mail |-> "none"]

NoResponse == [op |-> "none", via |-> "none", ref |-> 0, ticket |-> 0, seq |-> FALSE,
               result |-> "none", amount |-> 0, mail |-> "none"]

NoQuote == [eventDate |-> 0, purchaseDate |-> 0, ticketStatus |-> "none",
            eventStatus |-> "none", at |-> 0, eligible |-> FALSE,
            refundPercentage |-> -1]

\* ticket.service.ts:56  totalAmountInKobo = event.ticketPrice * quantity
TotalAmountInKobo(price, quantity) == price * quantity

\* ticket.service.ts:57  nairaTotal = (event.ticketPrice / 100) * quantity,
\* in hundredths of a naira
NairaTotal(price, quantity) == price * quantity

\* Math.round(x / y) for x >= 0, y > 0
RoundDiv(x, y) == (2 * x + y) \div (2 * y)

\* ticket.service.ts:176  Math.round((totalAmount / quantity) * 100), kobo
PricePerTicket(intent) == RoundDiv(intent.totalAmount, intent.quantity)

\* auth.service.ts:260  amount: amount * 100 sent to the gateway
GatewayAmount(amount) == amount * 100

TicketIds == 1..Len(tickets)
TicketsOfRef(r) == {t \in TicketIds : tickets[t].paymentReference = r}

\* a successful verifyPayment(r) has returned: the ticket is stored and the
\* handler that inserted it has left createTicket and verifyPayment
Reconciled(r) ==
  /\ TicketsOfRef(r) # {}
  /\ \A q \in Procs : ~(loc[q].ref = r /\ pc[q] \in {"v_inc", "v_payrec", "v_del"})

(* ---------------------------- initial state ---------------------------- *)
\* one event as EventService.createEvent stores it (availableTickets =
\* totalTickets), empty collections and cache, every handler free
InitLedgersOf(totals) ==
  /\ eventStatus \in [EventIds -> {"draft", "published"}]
  /\ totalTickets \in [EventIds -> totals]
  /\ availableTickets = totalTickets
  /\ ticketPrice \in [EventIds -> Prices]
  /\ eventDate \in [EventIds -> EventDates]
  /\ now = 0
  /\ cache = [r \in Refs |-> NoIntent]
  /\ gateway = [r \in Refs |-> NoSession]
  /\ nextRef = 1
  /\ tickets = <<>>
  /\ payments = [r \in Refs |-> "none"]
  /\ balance = [u \in Users |-> 0]
  /\ transactions = {}
  /\ credits = [r \in Refs |-> 0]
  /\ decrements = [r \in Refs |-> 0]
  /\ pc = [p \in Procs |-> "idle"]
  /\ loc = [p \in Procs |-> NoLoc]
  /\ response = NoResponse
  /\ quote = NoQuote

InitLedgers == InitLedgersOf(Totals)

\* a handler finishes: the method returns (or throws) `res`, the response is
\* sent and the handler is free for the next request
Finish(p, l, res) ==
  /\ pc' = [pc EXCEPT ![p] = "idle"]
  /\ loc' = [loc EXCEPT ![p] = NoLoc]
  /\ response' = [op |-> l.op, via |-> l.via, ref |-> l.ref, ticket |-> l.ticket,
                  seq |-> l.seq, result |-> res, amount |-> l.amount,
                  mail |-> l.mail]

\* a handler suspends at its next await
Goto(p, l, label) ==
  /\ pc' = [pc EXCEPT ![p] = label]
  /\ loc' = [loc EXCEPT ![p] = l]
  /\ response' = NoResponse

\* a request reaches a free handler; handlers are interchangeable, so the
\* first free one takes it
Accept(p) ==
  /\ pc[p] = "idle"
  /\ \A q \in Procs : q < p => pc[q] # "idle"
  /\ budget > 0
  /\ budget' = budget - 1

(* ---------------------------- purchaseTicket --------------------------- *)
\* ticket.service.ts:41  event.availableTickets < quantity
InsufficientIgnoringQuantity(eventId, quantity) == availableTickets[eventId] <= 0

Insufficient(eventId, quantity) == availableTickets[eventId] < quantity

\* Event.findById and the precondition checks
PurchaseCheckEvent(p, eventId, userId, quantity) ==
  /\ Accept(p)
  /\ LET l == [NoLoc EXCEPT !.op = "purchaseTicket", !.eventId = eventId,
                            !.userId = userId, !.quantity = quantity]
     IN  IF eventId \notin EventIds
           THEN Finish(p, l, "Event not found")
         ELSE IF eventStatus[eventId] # "published"
           THEN Finish(p, l, "Event is not available for ticket purchase")
         ELSE IF Insufficient(eventId, quantity)
           THEN Finish(p, l, "Only n tickets available")
         ELSE Goto(p, [l EXCEPT !.amount = TotalAmountInKobo(ticketPrice[eventId], quantity)],
                   "p_gateway")
  /\ UNCHANGED <<quote, eventVars, availableTickets, now, cache, gateway, nextRef,
                 tickets, payments, walletVars, decrements>>

\* User.findById, then paystackService.initializeTransaction
PurchaseInitializeTransaction(p) ==
  /\ pc[p] = "p_gateway"
  /\ \/ /\ nextRef \in Refs
        /\ gateway' = [gateway EXCEPT ![nextRef] =
                         [status |-> "pending", amount |-> GatewayAmount(loc[p].amount)]]
        /\ nextRef' = nextRef + 1
        /\ Goto(p, [loc[p] EXCEPT !.ref = nextRef], "p_store")
     \/ /\ Finish(p, loc[p], "Failed to initialize payment")
        /\ UNCHANGED <<gateway, nextRef>>
  /\ UNCHANGED <<quote, eventVars, availableTickets, now, cache, tickets, payments,
                 walletVars, decrements, budget>>

\* RedisClient.set: FALSE when the client is not connected or the command throws
RedisSet(key, value, ok) ==
  cache' = IF ok THEN [cache EXCEPT ![key] = value] ELSE cache

\* redisClient.set(`payment:${reference}`, ...) and the return
PurchaseStoreIntent(p) ==
  /\ pc[p] = "p_store"
  /\ \E ok \in BOOLEAN :
       RedisSet(loc[p].ref,
                [eventId |-> loc[p].eventId, userId |-> loc[p].userId,
                 quantity |-> loc[p].quantity,
                 totalAmount |-> NairaTotal(ticketPrice[loc[p].eventId], loc[p].quantity)],
                ok)
  /\ Finish(p, loc[p], "ok")
  /\ UNCHANGED <<quote, eventVars, availableTickets, now, gateway, nextRef, tickets,
                 payments, walletVars, decrements, budget>>

(* ---------------------------- verifyPayment ---------------------------- *)
\* RedisClient.get: null when the key is absent, the client is not connected
\* or the command throws
RedisGetDefault(key, ok) ==
  IF ok /\ cache[key] # NoIntent THEN cache[key]
  ELSE [eventId |-> "e1", userId |-> "u1", quantity |-> 1, totalAmount |-> 10000]

RedisGet(key, ok) == IF ok THEN cache[key] ELSE NoIntent

\* redisClient.get(`payment:${reference}`) and the "not found" return
VerifyPaymentStart(p, r, via) ==
  /\ Accept(p)
  /\ \E ok \in BOOLEAN :
       LET l == [NoLoc EXCEPT !.op = "verifyPayment", !.via = via, !.ref = r,
                              !.seq = Reconciled(r), !.intent = RedisGet(r, ok)]
       IN  IF l.intent = NoIntent
             THEN Finish(p, l, "Payment session expired or not found")
             ELSE Goto(p, l, "v_gateway")
  /\ UNCHANGED <<quote, eventVars, availableTickets, now, cache, gateway, nextRef,
                 tickets, payments, walletVars, decrements>>

\* GET /tickets/verify/:reference (TicketController.verifyPayment)
ClientVerifyPayment(p, r) == VerifyPaymentStart(p, r, "client")

\* PaymentController.handleWebhook: only a charge.success payload is verified
HandleWebhook(p, r, event) ==
  IF event = "charge.success"
    THEN VerifyPaymentStart(p, r, "webhook")
    ELSE /\ Accept(p)
         /\ Finish(p, [NoLoc EXCEPT !.op = "handleWebhook", !.via = "webhook", !.ref = r],
                   "Webhook received")
         /\ UNCHANGED <<quote, eventVars, availableTickets, now, cache, gateway, nextRef,
                        tickets, payments, walletVars, decrements>>

\* PaystackService.verifyTransaction: the status the gateway holds for the
\* reference, or "error" when the request fails or the gateway answers
\* status = false
VerifyTransactionTrusting(r, up) ==
  IF ~up \/ gateway[r].status = "none" THEN "error" ELSE "success"

VerifyTransaction(r, up) ==
  IF ~up \/ gateway[r].status = "none" THEN "error" ELSE gateway[r].status

\* verifyTransaction threw: the catch of verifyPayment returns the failure
GatewayErrorClearsIntent(p, l) ==
  /\ Finish(p, l, "Failed to verify payment")
  /\ cache' = [cache EXCEPT ![l.ref] = NoIntent]

GatewayError(p, l) ==
  /\ Finish(p, l, "Failed to verify payment")
  /\ UNCHANGED cache

\* status !== 'success': the Error thrown is caught and returned as a failure
NotSuccessfulClearsIntent(p, l) ==
  /\ Finish(p, l, "Payment verification failed")
  /\ cache' = [cache EXCEPT ![l.ref] = NoIntent]

NotSuccessful(p, l) ==
  /\ Finish(p, l, "Payment verification failed")
  /\ UNCHANGED cache

\* paystackService.verifyTransaction(reference) and the status check
VerifyQueryGateway(p) ==
  /\ pc[p] = "v_gateway"
  /\ \E up \in BOOLEAN :
       LET status == VerifyTransaction(loc[p].ref, up)
           l == [loc[p] EXCEPT !.gw = status]
       IN  IF status = "error" THEN GatewayError(p, l)
           ELSE IF status # "success" THEN NotSuccessful(p, l)
           ELSE /\ Goto(p, [l EXCEPT !.amount = PricePerTicket(l.intent)], "v_save")
                /\ UNCHANGED cache
  /\ UNCHANGED <<quote, eventVars, availableTickets, now, gateway, nextRef,
                 tickets, payments, walletVars, decrements, budget>>

\* the unique index { paymentReference: 1 } of the Ticket collection
NoUniqueReference(r) == TRUE

UniqueReference(r) == TicketsOfRef(r) = {}

\* createTicket: new Ticket({...}).save(), then the $push on the user
VerifySaveTicket(p) ==
  /\ pc[p] = "v_save"
  /\ IF UniqueReference(loc[p].ref)
       THEN /\ tickets' = Append(tickets,
                 [paymentReference |-> loc[p].ref, event |-> loc[p].intent.eventId,
                  user |-> loc[p].intent.userId, price |-> loc[p].amount,
                  paymentStatus |-> "successful", status |-> "confirmed",
                  usedAt |-> -1])
            /\ Goto(p, [loc[p] EXCEPT !.ticket = Len(tickets) + 1], "v_inc")
       ELSE /\ Finish(p, loc[p], "E11000 duplicate key")
            /\ UNCHANGED tickets
  /\ UNCHANGED <<quote, eventVars, availableTickets, now, cache, gateway, nextRef,
                 payments, walletVars, decrements, budget>>

\* Event.findByIdAndUpdate(eventId, { $inc: { availableTickets: n } })
IncAvailable(eventId, n) ==
  availableTickets' = [availableTickets EXCEPT ![eventId] = @ + n]

\* createTicket: the inventory update
VerifyDecrement(p) ==
  /\ pc[p] = "v_inc"
  /\ IncAvailable(loc[p].intent.eventId, -1)
  /\ decrements' = [decrements EXCEPT ![loc[p].ref] = @ + 1]
  /\ Goto(p, loc[p], "v_payrec")
  /\ UNCHANGED <<quote, eventVars, now, cache, gateway, nextRef, tickets, payments,
                 walletVars, budget>>

\* a notification is attempted: sent, or failed with the error caught and logged
MailOutcome(sent) == IF sent THEN "sent" ELSE "failed"

\* the value an operation returns after its notification was attempted
AfterMailOrThrow(outcome, res) ==
  IF outcome = "failed" THEN "Failed to send email" ELSE res

AfterMail(outcome, res) == res

\* createPaymentRecord: new Payment({...}).save(), reference unique; then
\* sendTicketConfirmation is started and not awaited
VerifyPaymentRecord(p) ==
  /\ pc[p] = "v_payrec"
  /\ IF payments[loc[p].ref] = "none"
       THEN /\ payments' = [payments EXCEPT ![loc[p].ref] = "successful"]
            /\ \E sent \in BOOLEAN :
                 Goto(p, [loc[p] EXCEPT !.mail = MailOutcome(sent)], "v_del")
       ELSE /\ Finish(p, loc[p], "E11000 duplicate key")
            /\ UNCHANGED payments
  /\ UNCHANGED <<quote, eventVars, availableTickets, now, cache, gateway, nextRef,
                 tickets, walletVars, decrements, budget>>

\* RedisClient.del: the key is removed unless the client is not connected or
\* the command throws
RedisDel(key, ok) ==
  cache' = IF ok THEN [cache EXCEPT ![key] = NoIntent] ELSE cache

\* redisClient.del(`payment:${reference}`) and the successful return
VerifyDeleteIntent(p) ==
  /\ pc[p] = "v_del"
  /\ \E ok \in BOOLEAN : RedisDel(loc[p].ref, ok)
  /\ Finish(p, loc[p], AfterMail(loc[p].mail, "ok"))
  /\ UNCHANGED <<quote, eventVars, availableTickets, now, gateway, nextRef, tickets,
                 payments, walletVars, decrements, budget>>

(* ---------------------------- cancelTicket ----------------------------- *)
\* Ticket.findOne({ _id, user }) and the status checks
CancelFindTicket(p, t, userId) ==
  /\ Accept(p)
  /\ LET l == [NoLoc EXCEPT !.op = "cancelTicket", !.ticket = t, !.userId = userId]
     IN  IF t \notin TicketIds \/ tickets[t].user # userId
           THEN Finish(p, l, "Ticket not found or you do not have permission")
         ELSE IF tickets[t].status = "used"
           THEN Finish(p, l, "Cannot cancel a used ticket")
         ELSE IF tickets[t].status = "cancelled"
           THEN Finish(p, l, "Ticket is already cancelled")
         ELSE Goto(p, [l EXCEPT !.eventId = tickets[t].event,
                                !.ref = tickets[t].paymentReference], "c_event")
  /\ UNCHANGED <<quote, eventVars, availableTickets, now, cache, gateway, nextRef,
                 tickets, payments, walletVars, decrements>>

\* Event.findById(ticket.event) and the date check
CancelCheckEventAnyDate(p) ==
  /\ pc[p] = "c_event"
  /\ Goto(p, loc[p], "c_save")
  /\ UNCHANGED <<quote, eventVars, availableTickets, now, cache, gateway, nextRef,
                 tickets, payments, walletVars, decrements, budget>>

CancelCheckEvent(p) ==
  /\ pc[p] = "c_event"
  /\ IF eventDate[loc[p].eventId] < now
       THEN Finish(p, loc[p], "Cannot cancel ticket for past event")
       ELSE Goto(p, loc[p], "c_save")
  /\ UNCHANGED <<quote, eventVars, availableTickets, now, cache, gateway, nextRef,
                 tickets, payments, walletVars, decrements, budget>>

\* ticket.status = 'cancelled'; ticket.save() writes the modified path only
CancelSaveTicket(p) ==
  /\ pc[p] = "c_save"
  /\ tickets' = [tickets EXCEPT ![loc[p].ticket].status = "cancelled"]
  /\ Goto(p, loc[p], "c_inc")
  /\ UNCHANGED <<quote, eventVars, availableTickets, now, cache, gateway, nextRef,
                 payments, walletVars, decrements, budget>>

\* the inventory release, the cache clears and the return
CancelIncrement(p) ==
  /\ pc[p] = "c_inc"
  /\ IncAvailable(loc[p].eventId, 1)
  /\ Finish(p, loc[p], "ok")
  /\ UNCHANGED <<quote, eventVars, now, cache, gateway, nextRef, tickets, payments,
                 walletVars, decrements, budget>>

(* ---------------------------- verifyTicket ----------------------------- *)
\* Ticket.findOne({ ticketNumber }) with its event, and the checks made on the
\* document read; usedAt = new Date() is taken before the save is awaited
VerifyTicketFind(p, t) ==
  /\ Accept(p)
  /\ LET l == [NoLoc EXCEPT !.op = "verifyTicket", !.ticket = t]
     IN  IF t \notin TicketIds
           THEN Finish(p, l, "Invalid ticket code")
         ELSE IF tickets[t].status = "used"
           THEN Finish(p, l, "Ticket has already been used")
         ELSE IF tickets[t].status = "cancelled"
           THEN Finish(p, l, "Ticket has been cancelled")
         ELSE IF tickets[t].status = "expired" \/ eventDate[tickets[t].event] < now
           THEN Goto(p, l, "t_expire")
         ELSE IF tickets[t].paymentStatus # "successful"
           THEN Finish(p, l, "Payment not completed")
         ELSE IF tickets[t].status = "confirmed"
           THEN Goto(p, [l EXCEPT !.read = now], "t_use")
         ELSE Finish(p, l, "Valid ticket")
  /\ UNCHANGED <<quote, eventVars, availableTickets, now, cache, gateway, nextRef,
                 tickets, payments, walletVars, decrements>>

\* ticket.status = 'expired'; ticket.save(); the ticket is reported invalid
VerifyTicketSaveExpired(p) ==
  /\ pc[p] = "t_expire"
  /\ tickets' = [tickets EXCEPT ![loc[p].ticket].status = "expired"]
  /\ Finish(p, loc[p], "Ticket has expired")
  /\ UNCHANGED <<quote, eventVars, availableTickets, now, cache, gateway, nextRef,
                 payments, walletVars, decrements, budget>>

\* ticket.status = 'used'; ticket.usedAt = ...; ticket.save(); the ticket is
\* reported valid
VerifyTicketSaveUsedNoStamp(p) ==
  /\ pc[p] = "t_use"
  /\ tickets' = [tickets EXCEPT ![loc[p].ticket].status = "used"]
  /\ Finish(p, loc[p], "Valid ticket")
  /\ UNCHANGED <<quote, eventVars, availableTickets, now, cache, gateway, nextRef,
                 payments, walletVars, decrements, budget>>

VerifyTicketSaveUsed(p) ==
  /\ pc[p] = "t_use"
  /\ tickets' = [tickets EXCEPT ![loc[p].ticket].status = "used",
                                ![loc[p].ticket].usedAt = loc[p].read]
  /\ Finish(p, loc[p], "Valid ticket")
  /\ UNCHANGED <<quote, eventVars, availableTickets, now, cache, gateway, nextRef,
                 payments, walletVars, decrements, budget>>

(* ---------------------------- refund policy ---------------------------- *)
\* RefundPolicy.checkRefundEligibility: the refund percentage
RefundPercentageInclusive(daysUntilEvent, ticketStatus, evStatus) ==
  IF ticketStatus = "used" THEN 0
  ELSE IF ticketStatus = "cancelled" THEN 0
  ELSE IF evStatus = "cancelled" THEN 100
  ELSE IF daysUntilEvent >= 7 THEN 100
  ELSE IF daysUntilEvent >= 3 THEN 50
  ELSE IF daysUntilEvent >= 1 THEN 25
  ELSE 0

RefundPercentageSwapped(daysUntilEvent, ticketStatus, evStatus) ==
  IF ticketStatus = "used" THEN 0
  ELSE IF ticketStatus = "cancelled" THEN 0
  ELSE IF evStatus = "cancelled" THEN 100
  ELSE IF daysUntilEvent > 7 THEN 100
  ELSE IF daysUntilEvent > 3 THEN 25
  ELSE IF daysUntilEvent > 1 THEN 50
  ELSE 0

RefundPercentage(daysUntilEvent, ticketStatus, evStatus) ==
  IF ticketStatus = "used" THEN 0
  ELSE IF ticketStatus = "cancelled" THEN 0
  ELSE IF evStatus = "cancelled" THEN 100
  ELSE IF daysUntilEvent > 7 THEN 100
  ELSE IF daysUntilEvent > 3 THEN 50
  ELSE IF daysUntilEvent > 1 THEN 25
  ELSE 0

\* Math.ceil(x / y) for y > 0
CeilDiv(x, y) == -((-x) \div y)

\* Math.ceil((eventDate.getTime() - now.getTime()) / (1000 * 60 * 60 * 24))
DaysUntilEvent(date, today) == CeilDiv(date - today, HoursPerDay)

\* RefundPolicy.checkRefundEligibility evaluated when the clock reads `today`:
\* the eligible flag and the percentage of the branch taken
CheckRefundEligibility(date, purchaseDate, ticketStatus, evStatus, today) ==
  LET daysUntilEvent == DaysUntilEvent(date, today)
      pct == RefundPercentage(daysUntilEvent, ticketStatus, evStatus)
  IN  [eligible |-> IF ticketStatus \in {"used", "cancelled"} THEN FALSE
                    ELSE IF evStatus = "cancelled" THEN TRUE
                    ELSE daysUntilEvent > 1,
       refundPercentage |-> pct]

\* RefundPolicy.calculateRefundAmount: always evaluated as a confirmed ticket
\* of a published event
CalculateRefundAmount(price, date, today) ==
  (price * RefundPercentage(DaysUntilEvent(date, today), "confirmed", "published")) \div 100

(* ---------------------------- requestRefund ---------------------------- *)
\* the amount requestRefund quotes for ticket t: the policy evaluated on the
\* ticket's and the event's stored status; 0 when not eligible
QuotedRefund(t) ==
  LET e == CheckRefundEligibility(eventDate[tickets[t].event], 0, tickets[t].status,
                                  eventStatus[tickets[t].event], now)
  IN  IF e.eligible THEN (tickets[t].price * e.refundPercentage) \div 100 ELSE 0

\* Ticket.findById with its event, the ownership check and the quote
RequestRefund(p, t, userId) ==
  /\ Accept(p)
  /\ LET l == [NoLoc EXCEPT !.op = "requestRefund", !.ticket = t, !.userId = userId]
     IN  IF t \notin TicketIds
           THEN Finish(p, l, "Ticket not found")
         ELSE IF tickets[t].user # userId
           THEN Finish(p, l, "Unauthorized")
         ELSE Finish(p, [l EXCEPT !.amount = QuotedRefund(t)],
                     IF QuotedRefund(t) > 0 THEN "eligible" ELSE "not eligible")
  /\ UNCHANGED <<quote, eventVars, availableTickets, now, cache, gateway, nextRef,
                 tickets, payments, walletVars, decrements>>

(* ---------------------------- processTicketRefund ---------------------- *)
\* Ticket.findById, the "already refunded" check, the policy and the amount
\* validation of refundWallet
RefundFindTicket(p, t) ==
  /\ Accept(p)
  /\ LET l == [NoLoc EXCEPT !.op = "processTicketRefund", !.ticket = t]
     IN  IF t \notin TicketIds
           THEN Finish(p, l, "Ticket not found")
         ELSE IF tickets[t].paymentStatus = "refunded"
           THEN Finish(p, l, "Ticket already refunded")
         ELSE LET amount == CalculateRefundAmount(tickets[t].price,
                                                  eventDate[tickets[t].event], now)
                  m == [l EXCEPT !.amount = amount, !.userId = tickets[t].user,
                                 !.eventId = tickets[t].event,
                                 !.ref = tickets[t].paymentReference]
              IN  IF amount <= 0
                    THEN Finish(p, m, "Amount must be greater than 0")
                    ELSE Goto(p, m, "r_wallet")
  /\ UNCHANGED <<quote, eventVars, availableTickets, now, cache, gateway, nextRef,
                 tickets, payments, walletVars, decrements>>

\* refundWallet: Wallet.findOne({ user })
RefundWalletFind(p) ==
  /\ pc[p] = "r_wallet"
  /\ Goto(p, [loc[p] EXCEPT !.read = balance[loc[p].userId]], "r_wsave")
  /\ UNCHANGED <<quote, eventVars, availableTickets, now, cache, gateway, nextRef,
                 tickets, payments, walletVars, decrements, budget>>

\* refundWallet: wallet.balance = wallet.balance + amount; wallet.save()
RefundWalletSave(p) ==
  /\ pc[p] = "r_wsave"
  /\ credits[loc[p].ref] < MaxCredits
  /\ balance' = [balance EXCEPT ![loc[p].userId] = loc[p].read + loc[p].amount]
  /\ credits' = [credits EXCEPT ![loc[p].ref] = @ + 1]
  /\ Goto(p, loc[p], "r_txn")
  /\ UNCHANGED <<quote, eventVars, availableTickets, now, cache, gateway, nextRef,
                 tickets, payments, transactions, decrements, budget>>

\* refundWallet: new Transaction({ reference: REF-<paymentReference> }).save(),
\* reference unique
RefundTransactionSave(p) ==
  /\ pc[p] = "r_txn"
  /\ IF \A x \in transactions : x.reference # loc[p].ref
       THEN /\ transactions' = transactions \cup
                 {[reference |-> loc[p].ref, user |-> loc[p].userId,
                   type |-> "refund", amount |-> loc[p].amount]}
            /\ Goto(p, loc[p], "r_ticket")
       ELSE /\ Finish(p, loc[p], "E11000 duplicate key")
            /\ UNCHANGED transactions
  /\ UNCHANGED <<quote, eventVars, availableTickets, now, cache, gateway, nextRef,
                 tickets, payments, balance, credits, decrements, budget>>

\* ticket.paymentStatus = 'refunded'; ticket.status = 'cancelled'; save();
\* Payment.findOneAndUpdate({ reference }, { status: 'refunded' });
\* sendRefundEmail; return
RefundSaveTicket(p) ==
  /\ pc[p] = "r_ticket"
  /\ tickets' = [tickets EXCEPT ![loc[p].ticket].paymentStatus = "refunded",
                                ![loc[p].ticket].status = "cancelled"]
  /\ payments' = [payments EXCEPT ![loc[p].ref] =
                    IF @ = "none" THEN @ ELSE "refunded"]
  /\ \E sent \in BOOLEAN :
       LET l == [loc[p] EXCEPT !.mail = MailOutcome(sent)]
       IN  Finish(p, l, AfterMail(l.mail, "ok"))
  /\ UNCHANGED <<quote, eventVars, availableTickets, now, cache, gateway, nextRef,
                 walletVars, decrements, budget>>

(* ---------------------------- environment ------------------------------ *)
\* the customer completes the hosted checkout: the charge succeeds or fails
CustomerPays(r) ==
  /\ gateway[r].status = "pending"
  /\ gateway' = [gateway EXCEPT ![r].status = "success"]
  /\ UNCHANGED <<quote, eventVars, availableTickets, now, cache, nextRef, tickets,
                 payments, walletVars, decrements, budget, pc, loc>>
  /\ response' = NoResponse

ChargeFails(r) ==
  /\ gateway[r].status = "pending"
  /\ gateway' = [gateway EXCEPT ![r].status = "failed"]
  /\ UNCHANGED <<quote, eventVars, availableTickets, now, cache, nextRef, tickets,
                 payments, walletVars, decrements, budget, pc, loc>>
  /\ response' = NoResponse

\* an hour passes
Tick ==
  /\ now < MaxNow
  /\ now' = now + 1
  /\ UNCHANGED <<quote, eventVars, availableTickets, cache, gateway, nextRef, tickets,
                 payments, walletVars, decrements, budget, pc, loc>>
  /\ response' = NoResponse

WebhookEvents == {"charge.success", "charge.failed"}

\* arguments of the requests: every stored ticket and every reference handed
\* out, and one id that names none (ids that name nothing are interchangeable)
TicketArgs == {t \in Refs : t <= Len(tickets) + 1}
RefArgs == {r \in Refs : r <= nextRef}

(* ---------------------------- policy evaluation ------------------------ *)
\* inputs of checkRefundEligibility: event dates around every tier boundary
\* (hours from the start of the run), purchase dates, ticket and event statuses
PolicyEventDates ==
  {-25, -24, -1, 0, 1, 12, 24, 25, 26, 48, 49, 72, 73, 74, 96, 120, 168, 169,
   170, 192, 240}
PolicyPurchaseDates == {-48, 0}
TicketStatuses == {"pending", "confirmed", "cancelled", "used", "expired"}
EventStatuses == {"draft", "published", "cancelled", "completed"}

\* a caller evaluates the policy now and keeps the answer
EvaluatePolicy(date, purchaseDate, ticketStatus, evStatus) ==
  /\ LET e == CheckRefundEligibility(date, purchaseDate, ticketStatus, evStatus, now)
     IN  quote' = [eventDate |-> date, purchaseDate |-> purchaseDate,
                   ticketStatus |-> ticketStatus, eventStatus |-> evStatus,
                   at |-> now, eligible |-> e.eligible,
                   refundPercentage |-> e.refundPercentage]
  /\ UNCHANGED <<eventVars, availableTickets, now, cache, gateway, nextRef,
                 tickets, payments, walletVars, decrements, budget, pc, loc,
                 response>>

\* the clock advances between two evaluations
PolicyTick ==
  /\ Tick
  /\ UNCHANGED quote

Next ==
  \/ \E p \in Procs, e \in EventIds \cup {MissingEvent}, u \in Buyers, q \in Quantities :
       PurchaseCheckEvent(p, e, u, q)
  \/ \E p \in Procs : PurchaseInitializeTransaction(p)
  \/ \E p \in Procs : PurchaseStoreIntent(p)
  \/ \E p \in Procs, r \in RefArgs : ClientVerifyPayment(p, r)
  \/ \E p \in Procs, r \in RefArgs, ev \in WebhookEvents : HandleWebhook(p, r, ev)
  \/ \E p \in Procs : VerifyQueryGateway(p)
  \/ \E p \in Procs : VerifySaveTicket(p)
  \/ \E p \in Procs : VerifyDecrement(p)
  \/ \E p \in Procs : VerifyPaymentRecord(p)
  \/ \E p \in Procs : VerifyDeleteIntent(p)
  \/ \E p \in Procs, t \in TicketArgs, u \in Users : CancelFindTicket(p, t, u)
  \/ \E p \in Procs : CancelCheckEvent(p)
  \/ \E p \in Procs : CancelSaveTicket(p)
  \/ \E p \in Procs : CancelIncrement(p)
  \/ \E p \in Procs, t \in TicketArgs : VerifyTicketFind(p, t)
  \/ \E p \in Procs : VerifyTicketSaveExpired(p)
  \/ \E p \in Procs : VerifyTicketSaveUsed(p)
  \/ \E p \in Procs, t \in TicketArgs, u \in Users : RequestRefund(p, t, u)
  \/ \E p \in Procs, t \in TicketArgs : RefundFindTicket(p, t)
  \/ \E p \in Procs : RefundWalletFind(p)
  \/ \E p \in Procs : RefundWalletSave(p)
  \/ \E p \in Procs : RefundTransactionSave(p)
  \/ \E p \in Procs : RefundSaveTicket(p)
  \/ \E r \in Refs : CustomerPays(r)
  \/ \E r \in Refs : ChargeFails(r)
  \/ Tick

Init == InitLedgers /\ budget = MaxRequests

\* the same system, explored one request deeper
InitDeep == InitLedgers /\ budget = MaxDeepRequests

Spec == Init /\ [][Next]_vars

SpecDeep == InitDeep /\ [][Next]_vars

\* the same system with an event that has more than one ticket to sell
InitStock == InitLedgersOf(StockTotals) /\ budget = MaxRequests

SpecStock == InitStock /\ [][Next]_vars

\* the system after its first sale: purchaseTicket of one ticket by a buyer,
\* the payment, and a verifyPayment that ran to its end without a fault
InitSold ==
  /\ eventStatus = [e \in EventIds |-> "published"]
  /\ totalTickets \in [EventIds -> Totals]
  /\ ticketPrice \in [EventIds -> Prices]
  /\ eventDate \in [EventIds -> EventDates]
  /\ now = 0
  /\ nextRef = 2
  /\ cache = [r \in Refs |-> NoIntent]
  /\ \E e \in EventIds, u \in Buyers :
       LET intent == [eventId |-> e, userId |-> u, quantity |-> 1,
                      totalAmount |-> NairaTotal(ticketPrice[e], 1)]
       IN  /\ availableTickets = [totalTickets EXCEPT ![e] = @ - 1]
           /\ gateway = [r \in Refs |->
                           IF r = 1
                             THEN [status |-> "success",
                                   amount |-> GatewayAmount(TotalAmountInKobo(ticketPrice[e], 1))]
                             ELSE NoSession]
           /\ tickets = <<[paymentReference |-> 1, event |-> e, user |-> u,
                           price |-> PricePerTicket(intent),
                           paymentStatus |-> "successful", status |-> "confirmed",
                           usedAt |-> -1]>>
  /\ payments = [r \in Refs |-> IF r = 1 THEN "successful" ELSE "none"]
  /\ decrements = [r \in Refs |-> IF r = 1 THEN 1 ELSE 0]
  /\ balance = [u \in Users |-> 0]
  /\ transactions = {}
  /\ credits = [r \in Refs |-> 0]
  /\ budget = MaxRequests
  /\ pc = [p \in Procs |-> "idle"]
  /\ loc = [p \in Procs |-> NoLoc]
  /\ response = NoResponse
  /\ quote = NoQuote

SpecSold == InitSold /\ [][Next]_vars

(* ---------------------------- database failures ------------------------ *)
\* an awaited MongoDB write rejects (connection lost, timeout): the method's
\* catch logs and rethrows, nothing written before is undone
VerifyDecrementFails(p) ==
  /\ pc[p] = "v_inc"
  /\ Finish(p, loc[p], "Database error")
  /\ UNCHANGED <<quote, eventVars, availableTickets, now, cache, gateway, nextRef,
                 tickets, payments, walletVars, decrements, budget>>

VerifyPaymentRecordFails(p) ==
  /\ pc[p] = "v_payrec"
  /\ Finish(p, loc[p], "Database error")
  /\ UNCHANGED <<quote, eventVars, availableTickets, now, cache, gateway, nextRef,
                 tickets, payments, walletVars, decrements, budget>>

RefundTransactionSaveFails(p) ==
  /\ pc[p] = "r_txn"
  /\ Finish(p, loc[p], "Database error")
  /\ UNCHANGED <<quote, eventVars, availableTickets, now, cache, gateway, nextRef,
                 tickets, payments, walletVars, decrements, budget>>

NextFault ==
  \/ Next
  \/ \E p \in Procs : VerifyDecrementFails(p)
  \/ \E p \in Procs : VerifyPaymentRecordFails(p)
  \/ \E p \in Procs : RefundTransactionSaveFails(p)

\* the system with a database whose writes can fail
SpecFault == Init /\ [][NextFault]_vars

\* a request is sent only when every earlier one has been answered
Serial == (budget' < budget) => \A p \in Procs : pc[p] = "idle"

\* the system after its first sale, database writes can fail, and its clients
\* send one request at a time
SpecRetry == InitSold /\ [][NextFault /\ Serial]_vars

\* a handler suspended at an await resumes
Step(p) ==
  \/ PurchaseInitializeTransaction(p)
  \/ PurchaseStoreIntent(p)
  \/ VerifyQueryGateway(p)
  \/ VerifySaveTicket(p)
  \/ VerifyDecrement(p)
  \/ VerifyPaymentRecord(p)
  \/ VerifyDeleteIntent(p)
  \/ CancelCheckEvent(p)
  \/ CancelSaveTicket(p)
  \/ CancelIncrement(p)
  \/ VerifyTicketSaveExpired(p)
  \/ VerifyTicketSaveUsed(p)
  \/ RefundWalletFind(p)
  \/ RefundWalletSave(p)
  \/ RefundTransactionSave(p)
  \/ RefundSaveTicket(p)

\* the same system where every started request runs to its end and time
\* passes; which requests arrive, and whether the customer pays, stays free
SpecLive ==
  /\ Init
  /\ [][Next]_vars
  /\ WF_vars(Tick)
  /\ \A p \in Procs : WF_vars(Step(p))

\* the refund policy alone: evaluations of checkRefundEligibility on every
\* input while the clock advances
InitPolicy ==
  /\ InitLedgers
  /\ budget = 0
  /\ \A e \in EventIds :
       eventStatus[e] = "published" /\ totalTickets[e] = 1 /\ eventDate[e] = 0

NextPolicy ==
  \/ \E d \in PolicyEventDates, pd \in PolicyPurchaseDates,
        ts \in TicketStatuses, es \in EventStatuses : EvaluatePolicy(d, pd, ts, es)
  \/ PolicyTick

SpecPolicy == InitPolicy /\ [][NextPolicy]_vars

(* ---------------------------- properties ------------------------------- *)
\* no handler is inside verifyPayment(r)
Quiet(r) == \A p \in Procs : ~(loc[p].op = "verifyPayment" /\ loc[p].ref = r)

\* the step is the first step of a verifyPayment(r) call taken by handler p
StartsVerify(p, r) ==
  /\ pc[p] = "idle"
  /\ budget' < budget
  /\ \/ pc'[p] = "v_gateway" /\ loc'[p].ref = r
     \/ pc'[p] = "idle" /\ response'.op = "verifyPayment" /\ response'.ref = r

\* the step leaves tickets, inventory, payment records and wallets alone
LedgersUnchanged == UNCHANGED <<tickets, availableTickets, payments, decrements, walletVars>>

\* C1: for a reference the gateway reports as successful and whose intent is
\* stored, verifyPayment calls interleaved in any way store at most one ticket
\* with that paymentReference and decrement availableTickets at most once; once
\* a call that got past the gateway check has returned and no call for the
\* reference is still running, there is exactly one ticket and one decrement.
C1_ExactlyOneTicketPerReference ==
  \A r \in Refs :
    /\ Cardinality(TicketsOfRef(r)) <= 1
    /\ decrements[r] <= 1
    /\ (Quiet(r) /\ TicketsOfRef(r) # {}) => decrements[r] = 1
    /\ ( /\ response.op = "verifyPayment"
         /\ response.ref = r
         /\ response.result \in {"ok", "E11000 duplicate key"}
         /\ Quiet(r) )
       => (Cardinality(TicketsOfRef(r)) = 1 /\ decrements[r] = 1)

\* C1 witness: the loser of two concurrent verifyPayment(r) calls returns after
\* the winner; one ticket and one decrement are left.
C1_Witness ==
  /\ response.op = "verifyPayment"
  /\ response.result = "E11000 duplicate key"
  /\ Quiet(response.ref)
  /\ Cardinality(TicketsOfRef(response.ref)) = 1
  /\ decrements[response.ref] = 1

\* C2 (as claimed): a verifyPayment(r) call that starts after an earlier call
\* for r has returned success and cleared the intent, the gateway still
\* reporting success, returns success with the ticket the first call created.
C2_SecondCallReturnsTicket ==
  ( /\ response.op = "verifyPayment"
    /\ response.seq
    /\ cache[response.ref] = NoIntent
    /\ gateway[response.ref].status = "success" )
  => (response.result = "ok" /\ response.ticket \in TicketsOfRef(response.ref))

\* C3 (as claimed): whenever no operation is running, every event has
\* 0 <= availableTickets <= totalTickets.
C3_InventoryWithinBounds ==
  (\A p \in Procs : pc[p] = "idle")
  => \A e \in EventIds :
       0 <= availableTickets[e] /\ availableTickets[e] <= totalTickets[e]

\* C4 (as claimed): an event with totalTickets = 1 never has two confirmed
\* tickets.
C4_NoOversell ==
  \A e \in EventIds :
    totalTickets[e] = 1
    => Cardinality({t \in TicketIds : tickets[t].event = e
                                       /\ tickets[t].status = "confirmed"}) <= 1

\* C5: a ticket exists for a reference only if the gateway reports that
\* reference as successful, and a handler is past the status check of
\* verifyPayment only with a success answer read from the gateway in that call;
\* a charge.success webhook for an unpaid reference stores no ticket.
C5_TicketOnlyAfterGatewaySuccess ==
  /\ \A t \in TicketIds : gateway[tickets[t].paymentReference].status = "success"
  /\ \A p \in Procs :
       pc[p] \in {"v_save", "v_inc", "v_payrec", "v_del"}
       => (loc[p].gw = "success" /\ gateway[loc[p].ref].status = "success")
  /\ (response.op = "verifyPayment" /\ response.result = "ok")
     => gateway[response.ref].status = "success"

\* C5 witness: a charge.success webhook for a reference the customer has not
\* paid is answered with a failure and no ticket exists for it.
C5_Witness ==
  /\ response.op = "verifyPayment"
  /\ response.via = "webhook"
  /\ response.result = "Payment verification failed"
  /\ gateway[response.ref].status \in {"pending", "failed"}
  /\ TicketsOfRef(response.ref) = {}

\* C6: a verifyPayment(r) call whose gateway answer is a status other than
\* success ends at that step with a failure, and the step changes no ticket,
\* inventory or payment record and leaves the intent of r in the cache, where a
\* later call finds it.
C6_NotSuccessfulKeepsIntent ==
  [][\A p \in Procs :
       ( /\ pc[p] = "v_gateway"
         /\ pc'[p] # "v_gateway"
         /\ gateway[loc[p].ref].status # "success" )
       => /\ pc'[p] = "idle"
          /\ response'.op = "verifyPayment"
          /\ response'.ref = loc[p].ref
          /\ response'.result \in {"Payment verification failed", "Failed to verify payment"}
          /\ LedgersUnchanged
          /\ TicketsOfRef(loc[p].ref) = {}
          /\ cache' = cache
          /\ cache[loc[p].ref] = loc[p].intent
          /\ loc[p].intent # NoIntent]_vars

\* C6 witness: verifyPayment has just failed on a non-success status and the
\* intent is still cached.
C6_Witness ==
  /\ response.op = "verifyPayment"
  /\ response.result = "Payment verification failed"
  /\ cache[response.ref] # NoIntent
  /\ TicketsOfRef(response.ref) = {}

\* C7: a verifyPayment(r) call that starts while no intent is stored for r
\* returns the intent-unknown failure in its first step, and that step changes
\* no ticket, inventory, payment record, intent or gateway session.
C7_UnknownIntentChangesNothing ==
  [][\A p \in Procs, r \in Refs :
       (StartsVerify(p, r) /\ cache[r] = NoIntent)
       => /\ pc'[p] = "idle"
          /\ response'.result = "Payment session expired or not found"
          /\ LedgersUnchanged
          /\ UNCHANGED <<cache, gateway, nextRef>>]_vars

\* C7 witness: the reference is paid at the gateway, its intent is not in the
\* cache, and verifyPayment has answered intent-unknown.
C7_Witness ==
  /\ response.op = "verifyPayment"
  /\ response.result = "Payment session expired or not found"
  /\ cache[response.ref] = NoIntent
  /\ gateway[response.ref].status = "success"
  /\ TicketsOfRef(response.ref) = {}

\* C8: neither the first step of verifyPayment (the intent lookup) nor a
\* gateway query that fails changes a ticket, the inventory, a payment record or
\* the cache: after the failure the intent of r is as before the call.
C8_GatewayFailureChangesNothing ==
  [][\A p \in Procs :
       /\ (pc[p] = "idle" /\ pc'[p] = "v_gateway")
          => (LedgersUnchanged /\ cache' = cache /\ loc'[p].intent = cache[loc'[p].ref])
       /\ ( /\ pc[p] = "v_gateway"
            /\ pc'[p] = "idle"
            /\ response'.result = "Failed to verify payment" )
          => (LedgersUnchanged /\ cache' = cache)]_vars

\* C8 witness: the gateway query has just failed for a paid reference whose
\* intent is still cached, so a retry can create the ticket.
C8_Witness ==
  /\ response.op = "verifyPayment"
  /\ response.result = "Failed to verify payment"
  /\ gateway[response.ref].status = "success"
  /\ cache[response.ref] # NoIntent
  /\ TicketsOfRef(response.ref) = {}

PreconditionFailures ==
  {"Event not found", "Event is not available for ticket purchase",
   "Only n tickets available"}

\* C9: a purchaseTicket call gets past its precondition checks only for an
\* existing, published event with availableTickets >= quantity; a call that
\* fails one of them ends in its first step, and that step opens no gateway
\* session, writes no intent and changes no event or ticket record.
C9_FailedPurchaseHasNoEffect ==
  [][\A p \in Procs :
       /\ (pc[p] = "idle" /\ pc'[p] = "p_gateway")
          => /\ loc'[p].eventId \in EventIds
             /\ eventStatus[loc'[p].eventId] = "published"
             /\ availableTickets[loc'[p].eventId] >= loc'[p].quantity
       /\ ( /\ pc[p] = "idle"
            /\ response'.op = "purchaseTicket"
            /\ response'.result \in PreconditionFailures )
          => /\ LedgersUnchanged
             /\ UNCHANGED <<cache, gateway, nextRef, eventVars>>
             /\ pc' = pc]_vars

\* C9 witness: a purchase of more tickets than are available has just been
\* refused and no gateway session exists.
C9_Witness ==
  /\ response.op = "purchaseTicket"
  /\ response.result = "Only n tickets available"
  /\ nextRef = 1
  /\ \A r \in Refs : cache[r] = NoIntent /\ gateway[r] = NoSession

\* C10 (as claimed): when purchaseTicket returns successfully with reference
\* r, an intent for r is in the cache.
C10_IntentStoredOnSuccess ==
  (response.op = "purchaseTicket" /\ response.result = "ok")
  => cache[response.ref] # NoIntent

\* C11 (as claimed): every payment intent purchaseTicket writes to the cache is
\* eventually removed from it, by the delete of a successful verifyPayment or,
\* when the purchase is abandoned, by expiry.
C11_IntentEventuallyRemoved ==
  \A r \in Refs : (cache[r] # NoIntent) ~> (cache[r] = NoIntent)

\* C12 (as claimed): the inventory update of a successful verifyPayment
\* decrements availableTickets of the intent's event by the intent's quantity and
\* never leaves it negative.
C12_DecrementByQuantity ==
  [][\A p \in Procs :
       (pc[p] = "v_inc" /\ pc'[p] # "v_inc")
       => LET e == loc[p].intent.eventId
          IN  /\ availableTickets'[e] = availableTickets[e] - loc[p].intent.quantity
              /\ availableTickets'[e] >= 0]_vars

\* C13 (as claimed): once purchaseTicket has opened the gateway session, the
\* amount it is about to return, the amount the gateway holds for the session
\* and ticketPrice x quantity are the same number of minor units.
C13_AmountsAgree ==
  \A p \in Procs :
    pc[p] = "p_store"
    => /\ loc[p].amount = ticketPrice[loc[p].eventId] * loc[p].quantity
       /\ gateway[loc[p].ref].amount = loc[p].amount

\* the step is a whole call of `op` that was answered at once
Answered(op) == budget' < budget /\ response'.op = op

\* the step changes ticket t in its status only, and no other ticket
OnlyStatusChanges(t) ==
  /\ Len(tickets') = Len(tickets)
  /\ \A u \in TicketIds : u # t => tickets'[u] = tickets[u]
  /\ tickets'[t] = [tickets[t] EXCEPT !.status = tickets'[t].status]

\* C14: a cancelTicket call by the ticket's owner is refused at once, changing
\* no ticket and no inventory, when the ticket read is used or already
\* cancelled, and is refused at the event lookup when the event date has
\* passed; otherwise it goes on, sets the ticket's status to cancelled, then
\* increments availableTickets of the ticket's event by 1 and succeeds.
C14_CancelTicket ==
  [][/\ (Answered("cancelTicket") /\ response'.ticket \in TicketIds
          /\ response'.result # "Ticket not found or you do not have permission")
        => LET t == response'.ticket
           IN  /\ tickets[t].status \in {"used", "cancelled"}
               /\ response'.result = IF tickets[t].status = "used"
                                       THEN "Cannot cancel a used ticket"
                                       ELSE "Ticket is already cancelled"
               /\ UNCHANGED <<tickets, availableTickets>>
     /\ \A p \in Procs :
          /\ (pc[p] = "idle" /\ pc'[p] = "c_event")
             => /\ loc'[p].ticket \in TicketIds
                /\ tickets[loc'[p].ticket].user = loc'[p].userId
                /\ tickets[loc'[p].ticket].status \notin {"used", "cancelled"}
                /\ UNCHANGED <<tickets, availableTickets>>
          /\ (pc[p] = "c_event" /\ pc'[p] # "c_event")
             => /\ UNCHANGED <<tickets, availableTickets>>
                /\ IF eventDate[loc[p].eventId] < now
                     THEN /\ pc'[p] = "idle"
                          /\ response'.result = "Cannot cancel ticket for past event"
                     ELSE pc'[p] = "c_save"
          /\ (pc[p] = "c_save" /\ pc'[p] # "c_save")
             => /\ pc'[p] = "c_inc"
                /\ tickets'[loc[p].ticket].status = "cancelled"
                /\ OnlyStatusChanges(loc[p].ticket)
                /\ UNCHANGED availableTickets
          /\ (pc[p] = "c_inc" /\ pc'[p] # "c_inc")
             => /\ response'.op = "cancelTicket"
                /\ response'.result = "ok"
                /\ availableTickets' = [availableTickets EXCEPT ![loc[p].eventId] = @ + 1]
                /\ UNCHANGED tickets]_vars

\* C14 witness: the owner has just cancelled the confirmed ticket of an event
\* that has not taken place; the ticket is cancelled and its seat is back.
C14_Witness ==
  /\ response.op = "cancelTicket"
  /\ response.result = "ok"
  /\ tickets[response.ticket].status = "cancelled"
  /\ tickets[response.ticket].paymentStatus = "successful"
  /\ ~(eventDate[tickets[response.ticket].event] < now)
  /\ availableTickets[tickets[response.ticket].event]
       = totalTickets[tickets[response.ticket].event]

\* C15: verifyTicket goes on to mark a ticket used only for a ticket it read as
\* confirmed, paid and of an event whose date has not passed; the save sets
\* status to used, stamps usedAt and is the only step that reports the ticket
\* valid; a call that reads a used ticket answers "already used" at once and
\* changes no ticket, so after a valid scan every later scan is refused.
C15_VerifyTicketUsesOnce ==
  [][/\ \A p \in Procs :
          /\ (pc[p] = "idle" /\ pc'[p] = "t_use")
             => LET t == loc'[p].ticket
                IN  /\ t \in TicketIds
                    /\ tickets[t].status = "confirmed"
                    /\ tickets[t].paymentStatus = "successful"
                    /\ ~(eventDate[tickets[t].event] < now)
                    /\ loc'[p].read = now
                    /\ UNCHANGED tickets
          /\ (pc[p] = "t_use" /\ pc'[p] # "t_use")
             => LET t == loc[p].ticket
                IN  /\ response'.op = "verifyTicket"
                    /\ response'.result = "Valid ticket"
                    /\ tickets'[t] = [tickets[t] EXCEPT !.status = "used",
                                                        !.usedAt = loc[p].read]
                    /\ tickets'[t].usedAt >= 0
                    /\ \A u \in TicketIds : u # t => tickets'[u] = tickets[u]
     /\ (response'.op = "verifyTicket" /\ response'.result = "Valid ticket")
        => /\ \E p \in Procs : pc[p] = "t_use" /\ pc'[p] = "idle"
           /\ tickets'[response'.ticket].status = "used"
     /\ (Answered("verifyTicket") /\ response'.ticket \in TicketIds
          /\ tickets[response'.ticket].status = "used")
        => /\ response'.result = "Ticket has already been used"
           /\ UNCHANGED tickets
     /\ \A t \in TicketIds :
          (tickets[t].status # "used" /\ tickets'[t].status = "used")
          => \E p \in Procs : pc[p] = "t_use" /\ loc[p].ticket = t /\ pc'[p] = "idle"]_vars

\* C15 witness: a second scan of a ticket that a first scan marked used has just
\* been refused; the ticket is still used with its usedAt stamp.
C15_Witness ==
  /\ response.op = "verifyTicket"
  /\ response.result = "Ticket has already been used"
  /\ tickets[response.ticket].status = "used"
  /\ tickets[response.ticket].usedAt >= 0

\* C16 (as claimed): a verifyTicket call that reads a confirmed ticket of a past
\* event goes on to store status = expired and reports the ticket invalid, never
\* valid; and no step moves a ticket whose status is used or cancelled to
\* expired.
C16_ExpiryOnlyFromConfirmed ==
  [][/\ \A p \in Procs, t \in TicketIds :
          /\ ( /\ pc[p] = "idle"
               /\ budget' < budget
               /\ loc'[p].op = "verifyTicket" \/ response'.op = "verifyTicket"
               /\ loc'[p].ticket = t \/ response'.ticket = t
               /\ tickets[t].status = "confirmed"
               /\ eventDate[tickets[t].event] < now )
             => (pc'[p] = "t_expire" /\ loc'[p].ticket = t)
          /\ (pc[p] = "t_expire" /\ loc[p].ticket = t /\ pc'[p] # "t_expire")
             => /\ tickets'[t].status = "expired"
                /\ response'.result = "Ticket has expired"
     /\ \A t \in TicketIds :
          tickets[t].status \in {"used", "cancelled"} => tickets'[t].status # "expired"]_vars

\* C17 (as claimed): a ticket whose status is used keeps that status and its
\* paymentStatus in every step, and processTicketRefund goes on to credit the
\* wallet only for a ticket that is neither used nor cancelled.
C17_UsedIsTerminal ==
  [][/\ \A t \in TicketIds :
          tickets[t].status = "used"
          => /\ tickets'[t].status = "used"
             /\ tickets'[t].paymentStatus = tickets[t].paymentStatus
     /\ \A p \in Procs :
          (pc[p] = "idle" /\ pc'[p] = "r_wallet")
          => tickets[loc'[p].ticket].status \notin {"used", "cancelled"}]_vars

\* the number of days d with (d - 1) days < eventDate - at <= d days
ReferenceDays(date, at) ==
  CHOOSE d \in -3..12 :
    /\ d * HoursPerDay >= date - at
    /\ (d - 1) * HoursPerDay < date - at

\* the decision table of the refund policy: <<eligible, percentage>>
ReferenceDecision(days, ticketStatus, evStatus) ==
  CASE ticketStatus = "used" -> <<FALSE, 0>>
    [] ticketStatus # "used" /\ ticketStatus = "cancelled" -> <<FALSE, 0>>
    [] ticketStatus \notin {"used", "cancelled"} /\ evStatus = "cancelled" -> <<TRUE, 100>>
    [] OTHER -> IF days \in 8..12 THEN <<TRUE, 100>>
                ELSE IF days \in 4..7 THEN <<TRUE, 50>>
                ELSE IF days \in 2..3 THEN <<TRUE, 25>>
                ELSE <<FALSE, 0>>

\* C18: every answer of checkRefundEligibility equals the decision table applied
\* to the ticket status, the event status and ceil((eventDate - now) / 1 day);
\* a price of 10000 gives 10000 at 10 days, 5000 at 5 days, 2500 at 2 days and
\* nothing at 12 hours.
C18_PolicyMatchesTable ==
  /\ quote # NoQuote
     => <<quote.eligible, quote.refundPercentage>>
          = ReferenceDecision(ReferenceDays(quote.eventDate, quote.at),
                              quote.ticketStatus, quote.eventStatus)
  /\ CalculateRefundAmount(10000, now + 10 * HoursPerDay, now) = 10000
  /\ CalculateRefundAmount(10000, now + 5 * HoursPerDay, now) = 5000
  /\ CalculateRefundAmount(10000, now + 2 * HoursPerDay, now) = 2500
  /\ CalculateRefundAmount(10000, now + 12, now) = 0
  /\ ~CheckRefundEligibility(now + 12, now, "confirmed", "published", now).eligible

\* C18 witness: an event 3 days and 1 hour away counts as 4 days away and a
\* confirmed ticket for it is quoted 50%.
C18_Witness ==
  /\ quote.ticketStatus = "confirmed"
  /\ quote.eventStatus = "published"
  /\ quote.eventDate - quote.at = 3 * HoursPerDay + 1
  /\ quote.eligible
  /\ quote.refundPercentage = 50

\* C19: for the ticket and event status of any answer, every event date that is
\* no more days away than the answer's gets a percentage no higher than the
\* answer's.
C19_PercentageMonotone ==
  quote # NoQuote
  => \A d \in PolicyEventDates :
       DaysUntilEvent(d, quote.at) <= DaysUntilEvent(quote.eventDate, quote.at)
       => CheckRefundEligibility(d, quote.purchaseDate, quote.ticketStatus,
                                 quote.eventStatus, quote.at).refundPercentage
            <= quote.refundPercentage

\* C19 witness: a 50% answer, with a nearer event date that gets 25% and a
\* still nearer one that gets nothing.
C19_Witness ==
  /\ quote.refundPercentage = 50
  /\ \E d1, d2 \in PolicyEventDates :
       /\ d2 < d1
       /\ d1 < quote.eventDate
       /\ CheckRefundEligibility(d1, quote.purchaseDate, quote.ticketStatus,
                                 quote.eventStatus, quote.at).refundPercentage = 25
       /\ CheckRefundEligibility(d2, quote.purchaseDate, quote.ticketStatus,
                                 quote.eventStatus, quote.at).refundPercentage = 0

\* C20 (as claimed): two evaluations of checkRefundEligibility with the same
\* eventDate, purchaseDate, ticketStatus and eventStatus give the same
\* eligibility and percentage, whenever they are made.
C20_SameInputsSameAnswer ==
  [][( /\ quote # NoQuote
       /\ quote' # NoQuote
       /\ quote'.eventDate = quote.eventDate
       /\ quote'.purchaseDate = quote.purchaseDate
       /\ quote'.ticketStatus = quote.ticketStatus
       /\ quote'.eventStatus = quote.eventStatus )
     => ( /\ quote'.eligible = quote.eligible
          /\ quote'.refundPercentage = quote.refundPercentage )]_vars

\* C21 (as claimed): the amount processTicketRefund sets out to credit for a
\* ticket is the amount requestRefund quotes for that ticket in the same state,
\* and it refuses for lack of an amount only when the quote is nothing.
C21_CreditEqualsQuote ==
  [][/\ \A p \in Procs :
          (pc[p] = "idle" /\ pc'[p] = "r_wallet")
          => loc'[p].amount = QuotedRefund(loc'[p].ticket)
     /\ (Answered("processTicketRefund")
          /\ response'.result = "Amount must be greater than 0")
        => QuotedRefund(response'.ticket) = 0]_vars

\* C22 (as claimed): once a refund credit has been written to the wallet for a
\* ticket, no processTicketRefund call raises the balance for that ticket
\* again.
C22_CreditedAtMostOnce ==
  [][\A p \in Procs :
       (pc[p] = "r_wsave" /\ pc'[p] = "r_txn" /\ credits[loc[p].ref] >= 1)
       => balance'[loc[p].userId] <= balance[loc[p].userId]]_vars

\* C23 (as claimed): a ticket whose paymentStatus is refunded has a refund
\* transaction for its payment reference and exactly one wallet credit, also
\* when an earlier processTicketRefund failed while recording the credit and
\* the call was retried.
C23_RefundedHasMatchingCredit ==
  \A t \in TicketIds :
    tickets[t].paymentStatus = "refunded"
    => /\ \E x \in transactions : /\ x.reference = tickets[t].paymentReference
                                  /\ x.type = "refund"
                                  /\ x.user = tickets[t].user
       /\ credits[tickets[t].paymentReference] = 1

\* C24 (as claimed): the step that completes processTicketRefund on a ticket
\* that is confirmed increases availableTickets of the ticket's event by 1.
C24_RefundReleasesInventory ==
  [][\A p \in Procs :
       ( /\ pc[p] = "r_ticket"
         /\ pc'[p] = "idle"
         /\ response'.result = "ok"
         /\ tickets[loc[p].ticket].status = "confirmed" )
       => availableTickets'[loc[p].eventId] = availableTickets[loc[p].eventId] + 1]_vars

\* C25 (as claimed): in every state a ticket whose paymentStatus is refunded
\* has status cancelled.
C25_RefundedIsCancelled ==
  \A t \in TicketIds :
    tickets[t].paymentStatus = "refunded" => tickets[t].status = "cancelled"

\* C26: a verifyPayment or processTicketRefund call whose notification failed
\* still answers with success, and the step that answers takes nothing back:
\* the ticket of the payment stays stored with its inventory decrement and
\* payment record, the refunded ticket stays refunded with its wallet credit
\* and refund transaction.
C26_NotificationFailureIgnored ==
  [][/\ (response'.op = "verifyPayment" /\ response'.mail = "failed")
        => /\ response'.result = "ok"
           /\ response'.ticket \in TicketIds
           /\ tickets'[response'.ticket].paymentReference = response'.ref
           /\ payments'[response'.ref] # "none"
           /\ decrements'[response'.ref] >= 1
           /\ LedgersUnchanged
     /\ (response'.op = "processTicketRefund" /\ response'.mail = "failed")
        => /\ response'.result = "ok"
           /\ tickets'[response'.ticket].paymentStatus = "refunded"
           /\ tickets'[response'.ticket].status = "cancelled"
           /\ credits'[response'.ref] >= 1
           /\ \E x \in transactions' : x.reference = response'.ref
           /\ UNCHANGED <<availableTickets, decrements, walletVars>>]_vars

\* C26 witness: processTicketRefund has just answered with success although
\* its notification failed; the ticket is refunded and the wallet holds the
\* credit.
C26_Witness ==
  /\ response.op = "processTicketRefund"
  /\ response.mail = "failed"
  /\ response.result = "ok"
  /\ tickets[response.ticket].paymentStatus = "refunded"
  /\ balance[tickets[response.ticket].user] > 0

\* C27 (as claimed): a verifyPayment call that ends without success has stored
\* no ticket and has not decremented availableTickets.
C27_FailedVerifyLeavesNothing ==
  [][\A p \in Procs :
       ( /\ loc[p].op = "verifyPayment"
         /\ pc[p] # "idle"
         /\ pc'[p] = "idle"
         /\ response'.result # "ok" )
       => /\ loc[p].ticket \notin TicketIds
          /\ pc[p] \notin {"v_payrec", "v_del"}]_vars

\* the sum of the amounts of a set of transactions
RECURSIVE SumAmounts(_)
SumAmounts(S) ==
  IF S = {} THEN 0
  ELSE LET x == CHOOSE y \in S : TRUE
       IN  x.amount + SumAmounts(S \ {x})

\* C28 (as claimed): whenever no refundWallet call stands between its wallet
\* save and its transaction save, each wallet's balance is the sum of the
\* amounts of the transactions recorded for its user.
C28_BalanceIsSumOfTransactions ==
  (\A p \in Procs : pc[p] # "r_txn")
  => \A u \in Users :
       balance[u] = SumAmounts({x \in transactions : x.user = u})

\* C29 (as claimed): a cancelTicket call saves the cancellation, and goes on to
\* release the seat, only for a ticket that is not cancelled yet, and the
\* release never lifts availableTickets above totalTickets.
C29_OneCancelWins ==
  [][\A p \in Procs :
       /\ (pc[p] = "c_save" /\ pc'[p] = "c_inc")
          => tickets[loc[p].ticket].status # "cancelled"
       /\ (pc[p] = "c_inc" /\ pc'[p] = "idle")
          => availableTickets'[loc[p].eventId] <= totalTickets[loc[p].eventId]]_vars

\* C30 (as claimed): a verifyTicket call reports a ticket valid only when its
\* save finds the ticket still confirmed, and no step takes a cancelled ticket
\* to status used.
C30_OneScanValid ==
  [][/\ \A p \in Procs :
          (pc[p] = "t_use" /\ pc'[p] = "idle" /\ response'.result = "Valid ticket")
          => tickets[loc[p].ticket].status = "confirmed"
     /\ \A t \in TicketIds :
          tickets[t].status = "cancelled" => tickets'[t].status # "used"]_vars

====
